---- MODULE Spec2Model ----
(***************************************************************************)
(* A model of sen2nbar: the BRDF kernels and the c-factor (kernels.py,     *)
(* brdf.py, c_factor.py), the extraction of the angle grid from the tile   *)
(* metadata (metadata.py), the nearest-neighbour gap filling (utils.py)    *)
(* and the application of the c-factor to one scene and to a time series   *)
(* (nbar.py).                                                              *)
(*                                                                         *)
(* Floating-point arrays are modelled in fixed point: a number is a record *)
(* [k |-> "fin", v |-> n] that stands for n / Scale, and NaN, +Inf and     *)
(* -Inf are values of their own with the IEEE rules numpy applies to them. *)
(* Angles are kept on a lattice of whole degrees.                          *)
(***************************************************************************)
EXTENDS Integers, Sequences, FiniteSets, TLC

VARIABLES
    \* ---- kernels.py / brdf.py / c_factor.py: one evaluation of the pure functions
    kpc,            \* "input" before the call, "kgeo" / "cfactor" after it
    sun_zenith,     \* array (sequence of cells) of Sun zeniths, degrees
    view_zenith,    \* array of sensor zeniths, degrees
    relative_azimuth, \* array of relative azimuths, degrees
    hb,             \* kgeo's shape parameter
    raw_cos_t,      \* kgeo: cos_t as computed by equation 41, per cell
    arccos_arg,     \* kgeo: the array handed to np.arccos, per cell
    k_out           \* the value returned: kgeo's array, or c_factor's band -> array

kvars == <<kpc, sun_zenith, view_zenith, relative_azimuth, hb, raw_cos_t,
           arccos_arg, k_out>>

VARIABLES
    \* ---- the libraries underneath
    joinSorts,      \* pandas: whether a join on a non-unique index sorts by key
    tieRule,        \* scipy: which of several equidistant points the k-d tree answers
    \* ---- nbar.py, nbar_stac: the catalog and the arguments
    itemKind,       \* per scene id, the granule metadata the catalog item points to
    itemBaseline,   \* per scene id, the item's s2:processing_baseline text
    searchOrder,    \* the scene ids in the order the search returns their items
    da,             \* the cube: per timestep its scene id and time (t: input position)
    epsg,           \* the epsg argument, a CRS text
    \* ---- nbar_stac: the locals
    pc,             \* "idle", "search", "loop", "returned", "raised"
    ordered_items,  \* scene ids of the items after the join
    loop_i,         \* the loop index i (from 0)
    c_array,
    processing_baseline,
    exclude,
    warned,         \* the warnings emitted, in order
    harmonize,      \* the offset per retained timestep
    c_concat,       \* the concatenated c-factor c, per retained timestep
    result,         \* the cube returned
    error           \* the exception that ended the call

libvars == <<joinSorts, tieRule>>
stacargs == <<itemKind, itemBaseline, searchOrder, da, epsg>>
staclocals == <<pc, ordered_items, loop_i, c_array, processing_baseline, exclude,
                warned, harmonize, c_concat, result, error>>

VARIABLES
    \* ---- one scene: nbar_SAFE, and angles_from_metadata / c_factor_from_metadata
    castNaN,        \* numpy: what astype("int16") makes of NaN on this platform
    metadata,       \* the granule metadata the path or URL leads to
    PROCESSING_BASELINE, \* the PROCESSING_BASELINE text of MTD_MSIL2A.xml
    to_int,         \* the to_int argument
    img_dn,         \* the DN of the pixel of the first band's image
    spc,            \* nbar_SAFE: "idle", "start", "bands", "done", "raised"
    safe_harmonize, \* nbar_SAFE: harmonize
    safe_c,         \* nbar_SAFE: c
    band_i,         \* nbar_SAFE: the bands done
    written,        \* nbar_SAFE: per band done, what was written
    safe_error,     \* nbar_SAFE: the exception that ended the call
    apc,            \* a direct call: "idle", "input", "returned", "raised"
    called,         \* the function called directly
    returned        \* its outcome

sceneargs == <<castNaN, metadata, PROCESSING_BASELINE, to_int, img_dn>>
safelocals == <<spc, safe_harmonize, safe_c, band_i, written, safe_error>>
directvars == <<apc, called, returned>>

VARIABLES
    \* ---- _extrapolate_c_factor on a grid, and on its own output
    xpc,            \* "idle", "input", "once", "twice"
    grid_in,        \* the argument da
    grid_out,       \* the outcome of the first call
    grid_again      \* the outcome of the call on the first call's output

extrapvars == <<xpc, grid_in, grid_out, grid_again>>

VARIABLES
    \* ---- one call of c_factor_from_item
    ipc,            \* "idle", "start", "metadata", "extrapolate", "compare",
                    \* "reprojected", "returned", "raised"
    item_arg,       \* the argument item
    item_to_epsg,   \* the argument to_epsg, a CRS text
    item_source,    \* SOURCE_EPSG
    item_target,    \* TO_EPSG
    item_c,         \* c
    item_calls,     \* what has been applied to c so far, in order
    item_error      \* the exception that ended the call

itemvars ==
    <<ipc, item_arg, item_to_epsg, item_source, item_target, item_c, item_calls, item_error>>

vars == <<kvars, libvars, stacargs, staclocals, sceneargs, safelocals, directvars,
          extrapvars, itemvars>>

-----------------------------------------------------------------------------
(* Fixed-point numbers with the IEEE special values.                       *)

Scale == 1000

\* With(e, LAMBDA x : body) is body with x standing for the value of e
With(v, Body(_)) == Body(v)
With2(v, w, Body(_, _)) == Body(v, w)
With3(u, v, w, Body(_, _, _)) == Body(u, v, w)

F(n) == [k |-> "fin", v |-> n]
NaN == [k |-> "nan", v |-> 0]
PInf == [k |-> "inf", v |-> 1]
NInf == [k |-> "inf", v |-> -1]

IsFin(x) == x.k = "fin"
IsNaN(x) == x.k = "nan"
IsInf(x) == x.k = "inf"

Abs(a) == IF a < 0 THEN -a ELSE a
Sgn(a) == IF a < 0 THEN -1 ELSE IF a > 0 THEN 1 ELSE 0
\* integer quotient rounded towards zero
Quot(a, b) == Sgn(a) * Sgn(b) * (Abs(a) \div Abs(b))

Inf(s) == IF s < 0 THEN NInf ELSE PInf

FNeg(x) == IF IsNaN(x) THEN NaN ELSE [k |-> x.k, v |-> -x.v]

FAdd(x, y) ==
    IF IsNaN(x) \/ IsNaN(y) THEN NaN
    ELSE IF IsInf(x) /\ IsInf(y) THEN (IF x.v = y.v THEN x ELSE NaN)
    ELSE IF IsInf(x) THEN x
    ELSE IF IsInf(y) THEN y
    ELSE F(x.v + y.v)

FSub(x, y) == FAdd(x, FNeg(y))

FMul(x, y) ==
    IF IsNaN(x) \/ IsNaN(y) THEN NaN
    ELSE IF IsInf(x) \/ IsInf(y)
         THEN (IF x.v = 0 \/ y.v = 0 THEN NaN ELSE Inf(Sgn(x.v) * Sgn(y.v)))
    ELSE F(Quot(x.v * y.v, Scale))

FDiv(x, y) ==
    IF IsNaN(x) \/ IsNaN(y) THEN NaN
    ELSE IF IsInf(x) THEN (IF IsInf(y) THEN NaN
                           ELSE Inf(x.v * (IF y.v < 0 THEN -1 ELSE 1)))
    ELSE IF IsInf(y) THEN F(0)
    ELSE IF y.v = 0 THEN (IF x.v = 0 THEN NaN ELSE Inf(Sgn(x.v)))
    ELSE F(Quot(x.v * Scale, y.v))

\* x <= y and x >= y as numpy compares: every comparison with NaN is False
FLeq(x, y) ==
    IF IsNaN(x) \/ IsNaN(y) THEN FALSE
    ELSE IF IsInf(x) THEN (x.v < 0 \/ x = y)
    ELSE IF IsInf(y) THEN y.v > 0
    ELSE x.v <= y.v

FGeq(x, y) == FLeq(y, x)

RECURSIVE ISqrtIter(_, _, _)
ISqrtIter(n, lo, hi) ==
    IF lo >= hi THEN lo
    ELSE LET mid == (lo + hi + 1) \div 2
         IN  IF mid * mid <= n THEN ISqrtIter(n, mid, hi)
             ELSE ISqrtIter(n, lo, mid - 1)

ISqrt(n) == ISqrtIter(n, 0, 46340)

FSqrt(x) ==
    IF IsNaN(x) THEN NaN
    ELSE IF IsInf(x) THEN (IF x.v > 0 THEN PInf ELSE NaN)
    ELSE IF x.v < 0 THEN NaN
    ELSE F(ISqrt(x.v * Scale))

\* x ** 2.0
FSquare(x) == FMul(x, x)

-----------------------------------------------------------------------------
(* Trigonometry on the lattice of whole degrees; radians are in 1/Scale.   *)

\* cos of 0..90 degrees, times Scale
CosTab ==
    <<1000, 1000, 999, 999, 998, 996, 995, 993, 990, 988, 985, 982, 978, 974,
      970, 966, 961, 956, 951, 946, 940, 934, 927, 921, 914, 906, 899, 891,
      883, 875, 866, 857, 848, 839, 829, 819, 809, 799, 788, 777, 766, 755,
      743, 731, 719, 707, 695, 682, 669, 656, 643, 629, 616, 602, 588, 574,
      559, 545, 530, 515, 500, 485, 469, 454, 438, 423, 407, 391, 375, 358,
      342, 326, 309, 292, 276, 259, 242, 225, 208, 191, 174, 156, 139, 122,
      105, 87, 70, 52, 35, 17, 0>>

CosDeg(d) ==
    LET m == d % 360
    IN  IF m <= 90 THEN CosTab[m + 1]
        ELSE IF m <= 180 THEN -CosTab[180 - m + 1]
        ELSE IF m <= 270 THEN -CosTab[m - 180 + 1]
        ELSE CosTab[360 - m + 1]

SinDeg(d) == CosDeg(d - 90)

TanDeg(d) == Quot(SinDeg(d) * Scale, CosDeg(d))

\* pi / 180, pi / 2 and pi / 4 in 1/Scale, the first in 1/Scale^2
RadPerDeg == 17453
HalfPi == F(1571)
QuarterPi == F(785)
Pi == F(3142)

DegToMrad(d) == Quot(d * RadPerDeg, Scale)
MradToDeg(v) == Quot(v * Scale + Sgn(v) * (RadPerDeg \div 2), RadPerDeg)

\* np.deg2rad
Deg2Rad(x) == IF IsFin(x) THEN F(DegToMrad(Quot(x.v, Scale))) ELSE x

FCos(x) == IF IsFin(x) THEN F(CosDeg(MradToDeg(x.v))) ELSE NaN
FSin(x) == IF IsFin(x) THEN F(SinDeg(MradToDeg(x.v))) ELSE NaN
FTan(x) == FDiv(FSin(x), FCos(x))

\* the least e in lo..hi with CosDeg(e) <= v (cos decreases over 0..180)
RECURSIVE CosSearch(_, _, _)
CosSearch(v, lo, hi) ==
    IF lo >= hi THEN lo
    ELSE LET mid == (lo + hi) \div 2
         IN  IF CosDeg(mid) <= v THEN CosSearch(v, lo, mid)
             ELSE CosSearch(v, mid + 1, hi)

\* np.arccos: the nearest lattice angle; NaN outside [-1, 1]
ArcCosDeg(v) ==
    With(CosSearch(v, 0, 180),
         LAMBDA d : IF d > 0 /\ (CosDeg(d - 1) - v) < (v - CosDeg(d)) THEN d - 1
                    ELSE d)

FArcCos(x) ==
    IF ~IsFin(x) THEN NaN
    ELSE IF x.v > Scale \/ x.v < -Scale THEN NaN
    ELSE F(DegToMrad(ArcCosDeg(x.v)))

\* the least e in lo..hi with TanDeg(e - 90) >= v (tan increases over -89..89)
RECURSIVE TanSearch(_, _, _)
TanSearch(v, lo, hi) ==
    IF lo >= hi THEN lo
    ELSE LET mid == (lo + hi) \div 2
         IN  IF TanDeg(mid - 90) >= v THEN TanSearch(v, lo, mid)
             ELSE TanSearch(v, mid + 1, hi)

\* np.arctan: the nearest lattice angle
ArcTanDeg(v) ==
    IF v >= TanDeg(89) THEN 89
    ELSE IF v <= TanDeg(-89) THEN -89
    ELSE With(TanSearch(v, 2, 179) - 90,
              LAMBDA d : IF (v - TanDeg(d - 1)) < (TanDeg(d) - v) THEN d - 1 ELSE d)

FArcTan(x) ==
    IF IsNaN(x) THEN NaN
    ELSE IF IsInf(x) THEN F(DegToMrad(90 * x.v))
    ELSE F(DegToMrad(ArcTanDeg(x.v)))

-----------------------------------------------------------------------------
(* kernels.py                                                              *)

\* xarray's cos_t.where(lambda x: cond(x), other=other), on one cell: the cell
\* is kept where the condition is True and replaced by other where it is False
WhereLeq(x, bound, other) == IF FLeq(x, bound) THEN x ELSE other
WhereGeq(x, bound, other) == IF FGeq(x, bound) THEN x ELSE other

One == F(Scale)
Sec(x) == FDiv(One, FCos(x))

\* kgeo, lines 41-71: the raw cos_t of one cell
KgeoRawCosT(sz, vz, ra, br, h) ==
    LET theta_i == Deg2Rad(sz)
        theta_v == Deg2Rad(vz)
    IN  With3(FArcTan(FMul(br, FTan(theta_i))),
              FArcTan(FMul(br, FTan(theta_v))),
              Deg2Rad(ra),
              LAMBDA theta_i_dev, theta_v_dev, phi :
        LET D == FSqrt(FSub(FAdd(FSquare(FTan(theta_i_dev)),
                                 FSquare(FTan(theta_v_dev))),
                            FMul(FMul(FMul(F(2 * Scale), FTan(theta_i_dev)),
                                      FTan(theta_v_dev)), FCos(phi))))
        IN  FDiv(FMul(h, FSqrt(FAdd(FSquare(D),
                                    FSquare(FMul(FMul(FTan(theta_i_dev),
                                                      FTan(theta_v_dev)),
                                                 FSin(phi)))))),
                 FAdd(Sec(theta_i_dev), Sec(theta_v_dev))))

\* the clamp at 1 alone, without the clamp at -1
ClampAboveOnly(x) == WhereLeq(x, F(Scale), F(Scale))

\* kgeo, lines 73-76: what np.arccos receives
ClampLow(x) == WhereLeq(x, F(Scale), F(Scale))
ClampCosT(x) == WhereGeq(ClampLow(x), F(-Scale), F(-Scale))

\* kgeo, one cell
KgeoCell(sz, vz, ra, br, h) ==
    LET theta_i == Deg2Rad(sz)
        theta_v == Deg2Rad(vz)
    IN  With3(FArcTan(FMul(br, FTan(theta_i))),
              FArcTan(FMul(br, FTan(theta_v))),
              ClampCosT(KgeoRawCosT(sz, vz, ra, br, h)),
              LAMBDA theta_i_dev, theta_v_dev, cos_t :
        With(FArcCos(cos_t), LAMBDA t :
        LET phi == Deg2Rad(ra)
            cos_xi_dev == FAdd(FMul(FCos(theta_i_dev), FCos(theta_v_dev)),
                               FMul(FMul(FSin(theta_i_dev), FSin(theta_v_dev)),
                                    FCos(phi)))
            secs == FAdd(Sec(theta_i_dev), Sec(theta_v_dev))
            O == FMul(FMul(FDiv(One, Pi), FSub(t, FMul(FSin(t), cos_t))), secs)
        IN  FAdd(FSub(FSub(O, Sec(theta_i_dev)), Sec(theta_v_dev)),
                 FMul(FMul(FMul(F(Scale \div 2), FAdd(One, cos_xi_dev)),
                           Sec(theta_i_dev)), Sec(theta_v_dev)))))

\* kvol, one cell
KvolCell(sz, vz, ra) ==
    With3(Deg2Rad(sz), Deg2Rad(vz), Deg2Rad(ra), LAMBDA theta_i, theta_v, phi :
    With(FAdd(FMul(FCos(theta_i), FCos(theta_v)),
              FMul(FMul(FSin(theta_i), FSin(theta_v)), FCos(phi))),
         LAMBDA cos_xi :
    With(FArcCos(cos_xi), LAMBDA xi :
        FSub(FDiv(FAdd(FMul(FSub(HalfPi, xi), cos_xi), FSin(xi)),
                  FAdd(FCos(theta_i), FCos(theta_v))),
             QuarterPi))))

\* the defaults of kgeo's br and hb
DefaultBr == F(Scale)
DefaultHb == F(2 * Scale)

-----------------------------------------------------------------------------
(* brdf.py and c_factor.py                                                 *)

\* The keys and weights of fiso, fvol and fgeo (axioms.py, which brdf.py and
\* c_factor.py import): per band the isotropic, volumetric and geometric
\* weight, times Scale.
BANDS == <<"B02", "B03", "B04", "B05", "B06", "B07", "B08", "B11", "B12">>

fiso == [b \in {BANDS[j] : j \in 1..Len(BANDS)} |->
            CASE b = "B02" -> 77 [] b = "B03" -> 131 [] b = "B04" -> 169
              [] b = "B05" -> 209 [] b = "B06" -> 232 [] b = "B07" -> 260
              [] b = "B08" -> 309 [] b = "B11" -> 343 [] b = "B12" -> 266]

fgeo == [b \in DOMAIN fiso |->
            CASE b = "B02" -> 8 [] b = "B03" -> 18 [] b = "B04" -> 23
              [] b = "B05" -> 26 [] b = "B06" -> 27 [] b = "B07" -> 29
              [] b = "B08" -> 33 [] b = "B11" -> 45 [] b = "B12" -> 39]

fvol == [b \in DOMAIN fiso |->
            CASE b = "B02" -> 37 [] b = "B03" -> 58 [] b = "B04" -> 57
              [] b = "B05" -> 85 [] b = "B06" -> 100 [] b = "B07" -> 120
              [] b = "B08" -> 154 [] b = "B11" -> 115 [] b = "B12" -> 64]

BandSet == DOMAIN fiso

\* the cells of the coarse grid along each axis (23 in the product)
GridSize == 2

\* a value, evaluated in full where it is defined
Evaluated(v) == IF v = v THEN v ELSE v

Deg(d) == F(d * Scale)

\* the angles brdf is evaluated at: those of the scenes and of the arrays
\* below, and NaN
TabledSun == {Deg(0), Deg(30), Deg(40), Deg(60)}
TabledView == {Deg(v) : v \in 0..(6 + 2 * GridSize)} \cup {Deg(60), NaN}
TabledAzimuth == {Deg(r) : r \in 28..50} \cup {Deg(0), Deg(180), NaN}

\* <<kvol, kgeo>> at each of these angles, evaluated once
KernelTable ==
    LET tab == [s \in TabledSun, v \in TabledView, r \in TabledAzimuth |->
                    <<KvolCell(s, v, r), KgeoCell(s, v, r, DefaultBr, DefaultHb)>>]
    IN  Evaluated(tab)

\* <<kvol, kgeo>> of one cell
Kernels(sz, vz, ra) == KernelTable[sz, vz, ra]

\* brdf of one cell, per band: fiso + (fvol * kvol + fgeo * kgeo)
BrdfCell(sz, vz, ra) ==
    With(Kernels(sz, vz, ra), LAMBDA ks :
        LET kv == ks[1]
            kg == ks[2]
        IN  [b \in BandSet |->
                FAdd(F(fiso[b]), FAdd(FMul(F(fvol[b]), kv), FMul(F(fgeo[b]), kg)))])

\* brdf: the angle arrays are sequences of cells of one shape; the band
\* dimension comes from the weights. The result is indexed [cell][band].
brdf(sz, vz, ra) == [c \in DOMAIN sz |-> BrdfCell(sz[c], vz[c], ra[c])]

\* view_zenith * 0
TimesZero(a) == [c \in DOMAIN a |-> FMul(a[c], F(0))]

RatioOf(num, den) ==
    [c \in DOMAIN num |->
        With2(num[c], den[c], LAMBDA n, d : [b \in BandSet |-> FDiv(n[b], d[b])])]

\* c_factor with the Sun zenith zeroed as well as the view zenith
CFactorSunZeroed(sz, vz, ra) ==
    RatioOf(brdf(TimesZero(sz), TimesZero(vz), ra), brdf(sz, vz, ra))

\* c_factor, indexed [cell][band]
c_factor(sz, vz, ra) ==
    RatioOf(brdf(sz, TimesZero(vz), ra), brdf(sz, vz, ra))

\* kgeo over arrays
kgeo(sz, vz, ra, br, h) ==
    [c \in DOMAIN sz |-> KgeoCell(sz[c], vz[c], ra[c], br, h)]

-----------------------------------------------------------------------------
(* Exceptions, grids and data arrays.                                      *)

\* the outcome of a call: a value returned, or an exception raised
\* a message is the sequence of its words
Ok(v) == [exc |-> "none", msg |-> <<>>, val |-> v]
Raise(type, msg) == [exc |-> type, msg |-> msg, val |-> <<>>]
Raised(r) == r.exc # "none"

\* a grid is a sequence of rows (y) of cells (x)
NRows(g) == Len(g)
NCols(g) == Len(g[1])

\* ndarray.ravel() and reshape(), row-major
Ravel(g) == [p \in 1..(NRows(g) * NCols(g)) |->
                g[((p - 1) \div NCols(g)) + 1][((p - 1) % NCols(g)) + 1]]
Reshape(flat, rows, cols) ==
    [i \in 1..rows |-> [j \in 1..cols |-> flat[(i - 1) * cols + j]]]

\* the position of a label in a coordinate (da.sel(band=label))
IndexOf(seq, label) == CHOOSE p \in DOMAIN seq : seq[p] = label

\* list.insert(p, e) with p counted from 0
InsertAt(seq, p, e) == SubSeq(seq, 1, p) \o <<e>> \o SubSeq(seq, p + 1, Len(seq))

-----------------------------------------------------------------------------
(* metadata.py                                                             *)

\* the pitch of the coarse grid, metres
GridPitch == 5000
HalfPitch == 2500

\* _get_angle_values: the rows of VALUES are split and read as floats; a
\* token is the text "NaN" or a number of degrees
Token(d) == [nan |-> FALSE, deg |-> d]
NaNToken == [nan |-> TRUE, deg |-> 0]
ParseFloat(tok) == IF tok.nan THEN NaN ELSE F(tok.deg * Scale)
get_angle_values(values_list, angle) ==
    LET values == values_list[angle]
    IN  [i \in DOMAIN values |-> [j \in DOMAIN values[i] |-> ParseFloat(values[i][j])]]

\* band_names: B01..B12 with B8A inserted at position 8
BandLabel(x) == CASE x = 1 -> "B01" [] x = 2 -> "B02" [] x = 3 -> "B03"
                  [] x = 4 -> "B04" [] x = 5 -> "B05" [] x = 6 -> "B06"
                  [] x = 7 -> "B07" [] x = 8 -> "B08" [] x = 9 -> "B09"
                  [] x = 10 -> "B10" [] x = 11 -> "B11" [] x = 12 -> "B12"

\* B8A appended after B12 instead of inserted after B08
BandNamesAppended == Append([x \in 1..12 |-> BandLabel(x)], "B8A")
band_names == InsertAt([x \in 1..12 |-> BandLabel(x)], 8, "B8A")

ANGLES == <<"Zenith", "Azimuth">>

\* the keys of bands_dict, in insertion order
Subjects == <<"Sun">> \o band_names

\* lines 75-87: the grids appended under one key for one angle, in the order
\* the detectors are listed
RECURSIVE Accumulated(_, _, _)
Accumulated(detectors, key, angle) ==
    IF detectors = <<>> THEN <<>>
    ELSE LET d == detectors[Len(detectors)]
             rest == Accumulated(SubSeq(detectors, 1, Len(detectors) - 1), key, angle)
         IN  IF band_names[d.bandId + 1] = key
             THEN Append(rest, get_angle_values(d, angle))
             ELSE rest

RECURSIVE SumSeq(_)
SumSeq(q) == IF q = <<>> THEN 0 ELSE q[1] + SumSeq(Tail(q))

\* np.mean over a list of numbers: NaN as soon as one entry is NaN
MeanCell(col) ==
    IF \E p \in DOMAIN col : IsNaN(col[p]) THEN NaN
    ELSE F(Quot(SumSeq([p \in DOMAIN col |-> col[p].v]), Len(col)))

\* np.nanmean over a list of numbers: NaN entries are left out; NaN when
\* nothing is left
NanMeanCell(col) ==
    With(SelectSeq(col, LAMBDA v : ~IsNaN(v)), LAMBDA valid :
        IF valid = <<>> THEN NaN
        ELSE F(Quot(SumSeq([p \in DOMAIN valid |-> valid[p].v]), Len(valid))))

\* np.nanmean(np.array(grids), axis=0): of no grid at all it is one NaN
\* scalar, not a grid
NanScalar == [scalar |-> TRUE, grid |-> <<>>]
NanMean(grids) ==
    IF grids = <<>> THEN NanScalar
    ELSE [scalar |-> FALSE,
          grid |-> [i \in DOMAIN grids[1] |-> [j \in DOMAIN grids[1][i] |->
                      NanMeanCell([p \in DOMAIN grids |-> grids[p][i][j]])]]]

\* lines 68-99: bands_dict after the means
BandsDict(meta) ==
    [s \in DOMAIN Subjects |->
        [a \in {"Zenith", "Azimuth"} |->
            NanMean(IF Subjects[s] = "Sun"
                    THEN <<get_angle_values(meta.sun, a)>>
                    ELSE Accumulated(meta.detectors, Subjects[s], a))]]

\* lines 101-103
YCoords(meta) == [i \in 1..GridSize |-> meta.ULY - GridPitch * (i - 1) - HalfPitch]
XCoords(meta) == [j \in 1..GridSize |-> meta.ULX + GridPitch * (j - 1) + HalfPitch]

\* the keys whose array is not a (2, GridSize, GridSize) array
Ragged(bd) ==
    {s \in DOMAIN bd : \E a \in {"Zenith", "Azimuth"} :
        \/ bd[s][a].scalar
        \/ Len(bd[s][a].grid) # GridSize
        \/ \E i \in DOMAIN bd[s][a].grid : Len(bd[s][a].grid[i]) # GridSize}

MissingAnglesMsg == <<"Not", "all", "bands", "include", "angles", "values.">>

\* angles_from_metadata: the data array (band, angle, y, x), or ValueError
angles_from_metadata(meta) ==
    With(BandsDict(meta), LAMBDA bd :
        IF Ragged(bd) # {}
        THEN Raise("ValueError", MissingAnglesMsg)
        ELSE Ok([band |-> Subjects,
                 data |-> [s \in DOMAIN Subjects |->
                             [a \in {"Zenith", "Azimuth"} |-> bd[s][a].grid]],
                 x |-> XCoords(meta),
                 y |-> YCoords(meta),
                 epsg |-> meta.epsg]))

-----------------------------------------------------------------------------
(* utils.py                                                                *)

\* squared distance between two cells of the flattened meshgrid
Dist2(X, Y, p, q) == (X[p] - X[q]) * (X[p] - X[q]) + (Y[p] - Y[q]) * (Y[p] - Y[q])

SetMin(S) == CHOOSE m \in S : \A n \in S : m <= n
SetMax(S) == CHOOSE m \in S : \A n \in S : m >= n

\* the nearest among the valid cells other than p itself
NearestOtherSet(X, Y, valid, p) ==
    IF valid \ {p} = {} THEN valid
    ELSE {q \in valid \ {p} :
            \A r \in valid \ {p} : Dist2(X, Y, p, q) <= Dist2(X, Y, p, r)}

\* the valid cells nearest to cell p
NearestSet(X, Y, valid, p) ==
    With(SetMin({Dist2(X, Y, p, r) : r \in valid}),
         LAMBDA least : {q \in valid : Dist2(X, Y, p, q) = least})

\* the first valid cell, wherever it lies
FirstValidOf(X, Y, valid, p, tie) == SetMin(valid)

\* NearestNDInterpolator's answer for cell p. Among equidistant points the
\* k-d tree's answer depends on how the tree was built: tie is "first" or
\* "last" in flattened order.
NearestOf(X, Y, valid, p, tie) ==
    IF tie = "first" THEN SetMin(NearestSet(X, Y, valid, p))
    ELSE SetMax(NearestSet(X, Y, valid, p))

\* what NearestNDInterpolator raises, a ValueError, when given no point
NoPointsMsg == <<"input", "data", "must", "be", "at", "least", "2-D">>

\* _extrapolate_data_array on the grid of one band with coordinates x, y
extrapolate_data_array(grid, x, y, tie) ==
    With3(Ravel(grid),
          Ravel([i \in DOMAIN y |-> [j \in DOMAIN x |-> x[j]]]),
          Ravel([i \in DOMAIN y |-> [j \in DOMAIN x |-> y[i]]]),
          LAMBDA flattened, X, Y :
    With({p \in DOMAIN flattened : ~IsNaN(flattened[p])}, LAMBDA not_nan_idx :
        IF not_nan_idx = {}
        THEN Raise("ValueError", NoPointsMsg)
        ELSE Ok(Reshape([p \in DOMAIN flattened |->
                            flattened[NearestOf(X, Y, not_nan_idx, p, tie)]],
                        NRows(grid), NCols(grid)))))

\* _extrapolate_c_factor: band by band in the order of da.band, concatenated
\* along band (arr is the argument da); the first band that raises ends the call
extrapolate_c_factor(arr, tie) ==
    With([p \in DOMAIN arr.band |->
             extrapolate_data_array(arr.data[p], arr.x, arr.y, tie)],
         LAMBDA per :
    With({p \in DOMAIN per : Raised(per[p])}, LAMBDA bad :
        IF bad # {}
        THEN Raise(per[SetMin(bad)].exc, per[SetMin(bad)].msg)
        ELSE Ok([arr EXCEPT !.data = [p \in DOMAIN arr.band |-> per[p].val]])))

-----------------------------------------------------------------------------
(* Tile metadata to run the functions on.                                  *)

\* the angle a detector of band bandId reports at cell (i, j), whole degrees
DetAngle(bandId, i, j, angle) ==
    IF angle = "Zenith" THEN 2 + (bandId % 3) + i + j ELSE 100 + 10 * (bandId % 3)

\* one detector observation of a band. part is the detector's footprint:
\* "all" cells, the "left" column, all but the last cell ("most", two degrees
\* off the other detector) or "none" (every cell NaN)
Detector(bandId, part) ==
    LET tok(i, j, a) ==
            CASE part = "all" -> Token(DetAngle(bandId, i, j, a))
              [] part = "left" -> IF j = 1 THEN Token(DetAngle(bandId, i, j, a))
                                  ELSE NaNToken
              [] part = "most" -> IF i = GridSize /\ j = GridSize THEN NaNToken
                                  ELSE Token(DetAngle(bandId, i, j, a) + 2)
              [] OTHER -> NaNToken
    IN  [bandId |-> bandId,
         Zenith |-> [i \in 1..GridSize |-> [j \in 1..GridSize |-> tok(i, j, "Zenith")]],
         Azimuth |-> [i \in 1..GridSize |-> [j \in 1..GridSize |-> tok(i, j, "Azimuth")]]]

SunGrid(sunZenith) ==
    [Zenith |-> [i \in 1..GridSize |-> [j \in 1..GridSize |-> Token(sunZenith)]],
     Azimuth |-> [i \in 1..GridSize |-> [j \in 1..GridSize |-> Token(150)]]]

RECURSIVE Concat(_)
Concat(seqs) == IF seqs = <<>> THEN <<>> ELSE seqs[1] \o Concat(Tail(seqs))

Reverse(q) == [p \in DOMAIN q |-> q[Len(q) + 1 - p]]

\* the detectors of bandIds 0..12 in ascending order: none for the bands in
\* absent, one all-NaN detector for the bands in blank, and for the others
\* one full detector, or with gaps two detectors that overlap and leave the
\* last cell unseen
DetectorList(absent, blank, gaps) ==
    Concat([b \in 1..13 |->
              IF (b - 1) \in absent THEN <<>>
              ELSE IF (b - 1) \in blank THEN <<Detector(b - 1, "none")>>
              ELSE IF gaps THEN <<Detector(b - 1, "left"), Detector(b - 1, "most")>>
              ELSE <<Detector(b - 1, "all")>>])

TileEpsg == 32632

Metadata(sunZenith, absent, blank, gaps, reversed) ==
    [ULX |-> 0, ULY |-> 0, epsg |-> TileEpsg,
     sun |-> SunGrid(sunZenith),
     detectors |-> IF reversed THEN Reverse(DetectorList(absent, blank, gaps))
                   ELSE DetectorList(absent, blank, gaps)]

\* the scenes of the catalog; the order of the numbers is the order of the
\* id texts
SceneIds == {1, 2}

\* granule metadata of a scene: complete, with gaps the extrapolation fills,
\* with a band (bandId 2) that no detector sees anywhere, or with a band
\* (bandId 8) that has no detector at all
Kinds == {"full", "gaps", "blank", "absent"}

SceneMetadata(id, kind) ==
    Metadata(20 + 10 * id,
             IF kind = "absent" THEN {8} ELSE {},
             IF kind = "blank" THEN {2} ELSE {},
             kind = "gaps", FALSE)

\* the metadata document behind the href of an item's granule-metadata asset
Granule(href) == SceneMetadata(href.id, href.kind)

-----------------------------------------------------------------------------
(* c_factor.py: from the metadata and from a catalog item                  *)

\* sun_view_angles.sel(angle=a, band=b)
SelAngle(angles, a, b) == angles.data[IndexOf(angles.band, b)][a]

\* c_factor_from_metadata: theta is the Sun zenith, vartheta each band's own
\* zenith, phi the Sun azimuth minus each band's own azimuth; c_factor
\* broadcasts theta over the bands and pairs each band's weights with that
\* band's angles
c_factor_from_metadata(meta) ==
    With(angles_from_metadata(meta), LAMBDA r :
        IF Raised(r) THEN r
        ELSE With3(r.val,
                   Ravel(SelAngle(r.val, "Zenith", "Sun")),
                   Ravel(SelAngle(r.val, "Azimuth", "Sun")),
                   LAMBDA sun_view_angles, theta, sunaz :
             LET vartheta(b) == Ravel(SelAngle(sun_view_angles, "Zenith", b))
                 phi(b) == With(Ravel(SelAngle(sun_view_angles, "Azimuth", b)),
                                LAMBDA az : [c \in DOMAIN az |-> FSub(sunaz[c], az[c])])
                 band(b) == With(c_factor(theta, vartheta(b), phi(b)),
                                 LAMBDA cf : Reshape([c \in DOMAIN theta |-> cf[c][b]],
                                                     GridSize, GridSize))
             IN  Ok([band |-> BANDS,
                     data |-> [p \in DOMAIN BANDS |-> band(BANDS[p])],
                     x |-> sun_view_angles.x,
                     y |-> sun_view_angles.y,
                     epsg |-> sun_view_angles.epsg,
                     reprojected |-> FALSE])))

\* float(to_epsg.split(":")[-1]): the text after the last colon read as a
\* float. A CRS text is [code |-> n] when that text is the number n and
\* [code |-> -1] when it is no number.
ParseEpsg(to_epsg) ==
    IF to_epsg.code < 0
    THEN Raise("ValueError", <<"could", "not", "convert", "string", "to", "float">>)
    ELSE Ok(to_epsg.code)

\* c.rio.write_crs(source).rio.reproject(target): the grid in the target CRS
Reproject(c, source, target) == [c EXCEPT !.epsg = target, !.reprojected = TRUE]

\* c_factor_from_item
c_factor_from_item(item, to_epsg, tie) ==
    With2(item.epsg, ParseEpsg(to_epsg), LAMBDA SOURCE_EPSG, parsed :
        IF Raised(parsed) THEN parsed
        ELSE With2(parsed.val, c_factor_from_metadata(Granule(item.href)),
                   LAMBDA TO_EPSG, c :
             IF Raised(c) THEN c
             ELSE With(extrapolate_c_factor(c.val, tie), LAMBDA e :
                  IF Raised(e) THEN e
                  ELSE IF SOURCE_EPSG # TO_EPSG
                       THEN Ok(Reproject(e.val, SOURCE_EPSG, TO_EPSG))
                       ELSE e)))

\* linear interpolation of the values v0 at x0 and v1 at x1, at x (also
\* outside x0..x1: fill_value="extrapolate")
Lerp(x0, v0, x1, v1, x) ==
    FAdd(v0, FDiv(FMul(FSub(v1, v0), F(x - x0)), F(x1 - x0)))

\* the grid node at or before coordinate value u on an axis (ascending or
\* descending), clipped so that the node after it exists
Bracket(axis, u) ==
    With({p \in 1..(Len(axis) - 1) :
             IF axis[1] < axis[2] THEN axis[p] <= u ELSE axis[p] >= u},
         LAMBDA before : IF before = {} THEN 1 ELSE SetMax(before))

\* c.interp(y=, x=, method="linear", fill_value="extrapolate") at one pixel
InterpGrid(grid, x, y, px, py) ==
    With2(Bracket(y, py), Bracket(x, px), LAMBDA i, j :
        LET top == Lerp(x[j], grid[i][j], x[j + 1], grid[i][j + 1], px)
            bot == Lerp(x[j], grid[i + 1][j], x[j + 1], grid[i + 1][j + 1], px)
        IN  Lerp(y[i], top, y[i + 1], bot, py))

\* the c-factor data array interpolated to the pixel (px, py): band -> value
Interp(c, px, py) ==
    [band |-> c.band,
     data |-> [p \in DOMAIN c.band |-> InterpGrid(c.data[p], c.x, c.y, px, py)]]

-----------------------------------------------------------------------------
(* nbar.py: nbar_stac                                                      *)

\* the timesteps of the cube at most
MaxTime == 3

\* a processing baseline text "MM.mm" as <<MM, mm>>; float() of it, times 100
Baselines == {<<3, 99>>, <<4, 0>>, <<4, 10>>}
SeriesBaselines == {<<3, 99>>, <<4, 0>>}
FloatOfBaseline(text) == text[1] * 100 + text[2]
HarmonizeFrom == 400

\* the datetime property of a scene
SceneDatetime(id) == 20160100 + id

\* the pystac item of a scene with the given metadata and baseline
ItemOf(id, kind, baseline) ==
    [id |-> id,
     epsg |-> TileEpsg,
     baseline |-> baseline,
     datetime |-> SceneDatetime(id),
     href |-> [id |-> id, kind |-> kind]]

\* the item the catalog holds for a scene id
CatalogItem(id) == ItemOf(id, itemKind[id], itemBaseline[id])

\* the bands and the pixel of the cube, and the DN it holds per band
CubeBands == <<"B02", "B03", "B04">>
CubeDN == <<F(2000 * Scale), F(0), F(500 * Scale)>>
CubeX == GridPitch
CubeY == -GridPitch

\* lines 176-182, the value c of the try block: the item's c-factor
\* interpolated to the pixels of the cube, or the exception raised
TryCFactor(item, to_epsg, tie) ==
    With(c_factor_from_item(item, to_epsg, tie),
         LAMBDA r : IF Raised(r) THEN r ELSE Ok(Interp(r.val, CubeX, CubeY)))

\* the CRS texts tried as the epsg argument: the tiles' own CRS, another
\* one, and a text that holds no number
EpsgTexts == {[code |-> TileEpsg], [code |-> TileEpsg + 1], [code |-> -1]}

\* TryCFactor of every scene, evaluated once
TryCFactorTable ==
    LET tab == [id \in SceneIds, kind \in Kinds, text \in EpsgTexts,
                tie \in {"first", "last"} |->
                    TryCFactor(ItemOf(id, kind, <<4, 0>>), text, tie)]
    IN  Evaluated(tab)

TryCFactorOf(item, kind, to_epsg, tie) == TryCFactorTable[item.id, kind, to_epsg, tie]

IsUnique(q) == \A p, r \in DOMAIN q : q[p] = q[r] => p = r
IsMonotonic(q) == \A p, r \in DOMAIN q : p < r => q[p] <= q[r]

\* q ordered by key, equal keys in their order in q
RECURSIVE StableSort(_, _)
StableSort(q, keys) ==
    IF keys = {} THEN <<>>
    ELSE LET least == SetMin(keys)
         IN  SelectSeq(q, LAMBDA v : v = least) \o StableSort(q, keys \ {least})

\* df_da_ids.join(df_items).item.values: a left join on the index. Each row of
\* the left frame gets the item of its id. The rows come in the order of the
\* left frame, except that with a non-unique left index (and not both indexes
\* monotonic) pandas joins through a sort on the key in the builds that sort.
JoinedIds(left, right, sorts) ==
    IF IsUnique(left) \/ (IsMonotonic(left) /\ IsMonotonic(right)) \/ ~sorts
    THEN left
    ELSE StableSort(left, {left[p] : p \in DOMAIN left})

ordered_items_of(cube, search, sorts) ==
    JoinedIds([p \in DOMAIN cube |-> cube[p].id], search, sorts)

\* np.delete(np.arange(n), exclude): IndexError when an index is out of bounds
Include(n, excl) ==
    IF \E p \in DOMAIN excl : excl[p] >= n
    THEN Raise("IndexError", <<"index", "out", "of", "bounds">>)
    ELSE Ok(SelectSeq([p \in 1..n |-> p - 1],
                      LAMBDA p : \A r \in DOMAIN excl : excl[r] # p))

\* da.where(lambda x: x > 0, other=np.nan) on one value
MaskNodata(x) == IF FLeq(x, F(0)) \/ IsNaN(x) THEN NaN ELSE x

\* xr.where(processing_baseline >= 4.0, -1000, 0) on one value
HarmonizeOffset(baseline) ==
    IF FloatOfBaseline(baseline) >= HarmonizeFrom THEN F(-1000 * Scale) ELSE F(0)

\* da * c for one timestep: the bands both have, in the order of the cube
TimesC(values, cslice) ==
    [p \in DOMAIN CubeBands |->
        FMul(values[p], cslice.data[IndexOf(cslice.band, CubeBands[p])])]

StacIdle ==
    /\ pc = "idle" /\ ordered_items = <<>> /\ loop_i = 0 /\ c_array = <<>>
    /\ processing_baseline = <<>> /\ exclude = <<>> /\ warned = <<>>
    /\ harmonize = <<>> /\ c_concat = <<>> /\ result = <<>> /\ error = Ok(<<>>)
    /\ itemKind = <<>> /\ itemBaseline = <<>> /\ searchOrder = <<>>
    /\ da = <<>> /\ epsg = [code |-> TileEpsg]

Orderings(S) ==
    {q \in [1..Cardinality(S) -> S] : \A p, r \in DOMAIN q : q[p] = q[r] => p = r}

Cubes ==
    UNION {{[p \in 1..n |-> [t |-> p, id |-> ids[p], time |-> SceneDatetime(ids[p])]] :
              ids \in [1..n -> SceneIds]} : n \in 1..MaxTime}

StacInit ==
    /\ joinSorts \in BOOLEAN
    /\ tieRule \in {"first", "last"}
    /\ da \in Cubes
    /\ itemKind \in [SceneIds -> Kinds]
    /\ itemBaseline \in [SceneIds -> SeriesBaselines]
    /\ \A id \in SceneIds \ {da[p].id : p \in DOMAIN da} :
          itemKind[id] = "full" /\ itemBaseline[id] = <<4, 0>>
    /\ searchOrder \in Orderings({da[p].id : p \in DOMAIN da})
    /\ epsg \in EpsgTexts
    /\ pc = "search"
    /\ ordered_items = <<>> /\ loop_i = 0 /\ c_array = <<>>
    /\ processing_baseline = <<>> /\ exclude = <<>> /\ warned = <<>>
    /\ harmonize = <<>> /\ c_concat = <<>> /\ result = <<>> /\ error = Ok(<<>>)

\* lines 147-166: search the catalog and order the items as the cube
StacSearch ==
    /\ pc = "search"
    /\ ordered_items' = ordered_items_of(da, searchOrder, joinSorts)
    /\ pc' = "loop"
    /\ UNCHANGED <<loop_i, c_array, processing_baseline, exclude, warned, harmonize,
                   c_concat, result, error>>

\* the warnings with at most one of this kind, as under a "once" filter
WarnOnce(warnings, i, item) ==
    IF warnings = <<>> THEN <<[i |-> i, datetime |-> item.datetime]>> ELSE warnings

\* lines 188-190: warnings.warn of the text with the index and the datetime
Warn(warnings, i, item) == Append(warnings, [i |-> i, datetime |-> item.datetime])

\* lines 172-191: one iteration of the loop
StacItem ==
    /\ pc = "loop"
    /\ loop_i < Len(ordered_items)
    /\ LET item == CatalogItem(ordered_items[loop_i + 1])
           r == TryCFactorOf(item, itemKind[item.id], epsg, tieRule)
       IN  IF r.exc = "none"
           THEN /\ c_array' = Append(c_array, r.val)
                /\ processing_baseline' = Append(processing_baseline, item.baseline)
                /\ UNCHANGED <<exclude, warned, pc, error>>
           ELSE IF r.exc = "ValueError"
           THEN /\ exclude' = Append(exclude, loop_i)
                /\ warned' = Warn(warned, loop_i, item)
                /\ UNCHANGED <<c_array, processing_baseline, pc, error>>
           ELSE /\ pc' = "raised"
                /\ error' = r
                /\ UNCHANGED <<c_array, processing_baseline, exclude, warned>>
    /\ loop_i' = loop_i + 1
    /\ UNCHANGED <<ordered_items, harmonize, c_concat, result>>

\* what xarray raises, ValueErrors, when the time axes differ in length and
\* when xr.concat gets an empty list
SizesMsg == <<"conflicting", "sizes", "for", "dimension", "'time'">>
NothingToConcatMsg ==
    <<"must", "supply", "at", "least", "one", "object", "to", "concatenate">>

\* the concatenation of no c-factor taken as a cube without timesteps
StacFinishEmptyCube ==
    /\ pc = "loop"
    /\ loop_i = Len(ordered_items)
    /\ LET include == IF Len(exclude) > 0 THEN Include(Len(da), exclude)
                      ELSE Ok([p \in 1..Len(da) |-> p - 1])
           kept == [p \in DOMAIN include.val |-> da[include.val[p] + 1]]
       IN  IF Raised(include)
           THEN /\ error' = include /\ pc' = "raised"
                /\ UNCHANGED <<harmonize, c_concat, result>>
           ELSE IF Len(processing_baseline) # Len(kept)
           THEN /\ error' = Raise("ValueError", SizesMsg)
                /\ pc' = "raised"
                /\ UNCHANGED <<harmonize, c_concat, result>>
           ELSE IF c_array = <<>>
           THEN /\ pc' = "returned"
                /\ harmonize' = <<>>
                /\ UNCHANGED <<c_concat, result, error>>
           ELSE IF Len(c_array) # Len(kept)
           THEN /\ error' = Raise("ValueError", SizesMsg)
                /\ pc' = "raised"
                /\ harmonize' = [p \in DOMAIN kept |->
                                    HarmonizeOffset(processing_baseline[p])]
                /\ UNCHANGED <<c_concat, result>>
           ELSE /\ harmonize' = [p \in DOMAIN kept |->
                                    HarmonizeOffset(processing_baseline[p])]
                /\ c_concat' = c_array
                /\ result' = [p \in DOMAIN kept |->
                                 [t |-> kept[p].t, id |-> kept[p].id,
                                  time |-> kept[p].time,
                                  data |-> TimesC([b \in DOMAIN CubeBands |->
                                                     FAdd(MaskNodata(CubeDN[b]),
                                                          harmonize'[p])],
                                                  c_array[p])]]
                /\ pc' = "returned"
                /\ UNCHANGED error
    /\ UNCHANGED <<ordered_items, loop_i, c_array, processing_baseline, exclude, warned>>

\* lines 193-222: filter the cube, harmonize, concatenate and multiply
StacFinish ==
    /\ pc = "loop"
    /\ loop_i = Len(ordered_items)
    /\ LET include == IF Len(exclude) > 0 THEN Include(Len(da), exclude)
                      ELSE Ok([p \in 1..Len(da) |-> p - 1])
           kept == [p \in DOMAIN include.val |-> da[include.val[p] + 1]]
       IN  IF Raised(include)
           THEN /\ error' = include /\ pc' = "raised"
                /\ UNCHANGED <<harmonize, c_concat, result>>
           ELSE IF Len(processing_baseline) # Len(kept)
           THEN /\ error' = Raise("ValueError", SizesMsg)
                /\ pc' = "raised"
                /\ UNCHANGED <<harmonize, c_concat, result>>
           ELSE IF c_array = <<>>
           THEN /\ error' = Raise("ValueError",
                                  NothingToConcatMsg)
                /\ pc' = "raised"
                /\ harmonize' = <<>>
                /\ UNCHANGED <<c_concat, result>>
           ELSE IF Len(c_array) # Len(kept)
           THEN /\ error' = Raise("ValueError", SizesMsg)
                /\ pc' = "raised"
                /\ harmonize' = [p \in DOMAIN kept |->
                                    HarmonizeOffset(processing_baseline[p])]
                /\ UNCHANGED <<c_concat, result>>
           ELSE /\ harmonize' = [p \in DOMAIN kept |->
                                    HarmonizeOffset(processing_baseline[p])]
                /\ c_concat' = c_array
                /\ result' = [p \in DOMAIN kept |->
                                 [t |-> kept[p].t, id |-> kept[p].id,
                                  time |-> kept[p].time,
                                  data |-> TimesC([b \in DOMAIN CubeBands |->
                                                     FAdd(MaskNodata(CubeDN[b]),
                                                          harmonize'[p])],
                                                  c_array[p])]]
                /\ pc' = "returned"
                /\ UNCHANGED error
    /\ UNCHANGED <<ordered_items, loop_i, c_array, processing_baseline, exclude, warned>>

StacNext == StacSearch \/ StacItem \/ StacFinish

-----------------------------------------------------------------------------
(* nbar.py: nbar_SAFE, and the direct calls on the metadata of one scene   *)

\* what the metadata of a scene is made of: the Sun zenith, the bands with
\* no detector, the bands with an all-NaN detector, whether the detectors
\* leave gaps and whether they are listed in descending order of bandId
SunZeniths1 == {30, 40}
Detections ==
    {<<{}, {}, FALSE>>, <<{}, {}, TRUE>>, <<{}, {2}, FALSE>>}
        \cup {<<{b}, {}, FALSE>> : b \in 0..12}
        \cup {<<{3, 8}, {}, TRUE>>}

SceneMetas ==
    {[sun |-> z, absent |-> p[1], blank |-> p[2], gaps |-> p[3], reversed |-> r] :
        z \in SunZeniths1, p \in Detections, r \in BOOLEAN}

Document(m) == Metadata(m.sun, m.absent, m.blank, m.gaps, m.reversed)

\* c_factor_from_metadata of every such scene, evaluated once
SceneCFactorTable ==
    LET tab == [z \in SunZeniths1, p \in Detections, r \in BOOLEAN |->
                    c_factor_from_metadata(Metadata(z, p[1], p[2], p[3], r))]
    IN  Evaluated(tab)

SceneCFactorOf(m) == SceneCFactorTable[m.sun, <<m.absent, m.blank, m.gaps>>, m.reversed]

\* nbar_SAFE lines 67-70: the c-factor of the scene, extrapolated
SafeCFactor(cf, tie) == IF Raised(cf) THEN cf ELSE extrapolate_c_factor(cf.val, tie)

\* SafeCFactor of every such scene, evaluated once
SafeCFactorTable ==
    LET tab == [z \in SunZeniths1, p \in Detections, r \in BOOLEAN,
                tie \in {"first", "last"} |->
                    SafeCFactor(c_factor_from_metadata(Metadata(z, p[1], p[2], p[3], r)),
                                tie)]
    IN  Evaluated(tab)

SafeCFactorOf(m, tie) ==
    SafeCFactorTable[m.sun, <<m.absent, m.blank, m.gaps>>, m.reversed, tie]

\* bands.items(): the bands nbar_SAFE processes, the keys of the weights
bands == BANDS

\* harmonize = PROCESSING_BASELINE >= 4.0
SafeHarmonize(baseline) == FloatOfBaseline(baseline) >= HarmonizeFrom

\* the DN of the pixel of the image of the p-th band
ImageDN(p) == IF p = 1 THEN F(img_dn * Scale) ELSE F((400 + 100 * p) * Scale)

\* img.round(): to the nearest whole number, halves to the even one
FRound(x) ==
    IF ~IsFin(x) THEN x
    ELSE LET whole == Quot(Abs(x.v), Scale)
             rest == Abs(x.v) % Scale
             up == rest * 2 > Scale \/ (rest * 2 = Scale /\ whole % 2 = 1)
         IN  F(Sgn(x.v) * (IF up THEN whole + 1 ELSE whole) * Scale)

\* astype("int16") of a rounded value: wrapped into 16 bits; of NaN and of
\* the infinities the cast is undefined and gives nan16
AsInt16(x, nan16) ==
    IF ~IsFin(x) THEN F(nan16 * Scale)
    ELSE F((((Quot(x.v, Scale) + 32768) % 65536) - 32768) * Scale)

\* every band multiplied with the c-factor interpolated for the first band
SafeBandStepsFirstGrid(p, dn, harm, cgrid, toint, nan16) ==
    With2(MaskNodata(dn),
          InterpGrid(cgrid.data[IndexOf(cgrid.band, bands[1])],
                     cgrid.x, cgrid.y, CubeX, CubeY),
          LAMBDA masked, interpolated :
    With(IF harm THEN FSub(masked, F(1000 * Scale)) ELSE masked, LAMBDA shifted :
    With(FMul(shifted, interpolated), LAMBDA nbar :
        [band |-> bands[p], masked |-> masked, shifted |-> shifted,
         interpolated |-> interpolated,
         value |-> IF toint THEN AsInt16(FRound(nbar), nan16) ELSE nbar])))

\* lines 89-106 for the image of the p-th band
SafeBandSteps(p, dn, harm, cgrid, toint, nan16) ==
    With2(MaskNodata(dn),
          InterpGrid(cgrid.data[IndexOf(cgrid.band, bands[p])],
                     cgrid.x, cgrid.y, CubeX, CubeY),
          LAMBDA masked, interpolated :
    With(IF harm THEN FSub(masked, F(1000 * Scale)) ELSE masked, LAMBDA shifted :
    With(FMul(shifted, interpolated), LAMBDA nbar :
        [band |-> bands[p], masked |-> masked, shifted |-> shifted,
         interpolated |-> interpolated,
         value |-> IF toint THEN AsInt16(FRound(nbar), nan16) ELSE nbar])))

SafeIdle ==
    /\ spc = "idle" /\ safe_harmonize = FALSE /\ safe_c = <<>> /\ band_i = 0
    /\ written = <<>> /\ safe_error = Ok(<<>>)

SceneIdle ==
    /\ castNaN = 0 /\ metadata = <<>> /\ PROCESSING_BASELINE = <<4, 0>>
    /\ to_int = FALSE /\ img_dn = 0

DirectIdle == apc = "idle" /\ called = "" /\ returned = Ok(<<>>)

ExtrapIdle == xpc = "idle" /\ grid_in = <<>> /\ grid_out = Ok(<<>>) /\ grid_again = Ok(<<>>)

ItemIdle ==
    /\ ipc = "idle" /\ item_arg = <<>> /\ item_to_epsg = [code |-> TileEpsg]
    /\ item_source = 0 /\ item_target = 0 /\ item_c = <<>> /\ item_calls = <<>>
    /\ item_error = Ok(<<>>)

SafeInit ==
    /\ castNaN \in {0, -32768}
    /\ tieRule \in {"first", "last"}
    /\ joinSorts = FALSE
    /\ metadata \in SceneMetas
    /\ PROCESSING_BASELINE \in Baselines
    /\ to_int \in BOOLEAN
    /\ img_dn \in {0, 500, 2000}
    /\ spc = "start" /\ safe_harmonize = FALSE /\ safe_c = <<>> /\ band_i = 0
    /\ written = <<>> /\ safe_error = Ok(<<>>)

\* lines 43-70: the baseline, the c-factor and its extrapolation
SafeStart ==
    /\ spc = "start"
    /\ safe_harmonize' = SafeHarmonize(PROCESSING_BASELINE)
    /\ LET c == SafeCFactorOf(metadata, tieRule)
       IN  IF Raised(c)
           THEN spc' = "raised" /\ safe_error' = c /\ UNCHANGED safe_c
           ELSE spc' = "bands" /\ safe_c' = c.val /\ UNCHANGED safe_error
    /\ UNCHANGED <<band_i, written>>

\* lines 76-109: one band
SafeBand ==
    /\ spc = "bands"
    /\ band_i < Len(bands)
    /\ written' = Append(written,
                         SafeBandSteps(band_i + 1, ImageDN(band_i + 1),
                                       safe_harmonize, safe_c, to_int, castNaN))
    /\ band_i' = band_i + 1
    /\ UNCHANGED <<spc, safe_harmonize, safe_c, safe_error>>

\* lines 111-115
SafeDone ==
    /\ spc = "bands"
    /\ band_i = Len(bands)
    /\ spc' = "done"
    /\ UNCHANGED <<safe_harmonize, safe_c, band_i, written, safe_error>>

SafeNext == SafeStart \/ SafeBand \/ SafeDone

\* a direct call of angles_from_metadata or of c_factor_from_metadata
DirectInit ==
    /\ castNaN = 0 /\ PROCESSING_BASELINE = <<4, 0>> /\ to_int = FALSE /\ img_dn = 0
    /\ tieRule = "first" /\ joinSorts = FALSE
    /\ metadata \in SceneMetas
    /\ called \in {"angles_from_metadata", "c_factor_from_metadata"}
    /\ apc = "input"
    /\ returned = Ok(<<>>)

CallAnglesFromMetadata ==
    /\ apc = "input"
    /\ called = "angles_from_metadata"
    /\ returned' = angles_from_metadata(Document(metadata))
    /\ apc' = IF Raised(returned') THEN "raised" ELSE "returned"
    /\ UNCHANGED called

CallCFactorFromMetadata ==
    /\ apc = "input"
    /\ called = "c_factor_from_metadata"
    /\ returned' = SceneCFactorOf(metadata)
    /\ apc' = IF Raised(returned') THEN "raised" ELSE "returned"
    /\ UNCHANGED called

DirectNext == CallAnglesFromMetadata \/ CallCFactorFromMetadata

-----------------------------------------------------------------------------
(* One evaluation of kgeo or of c_factor on arrays of up to MaxCells cells. *)

MaxCells == 2

SunZeniths == {Deg(30), Deg(60)}
ViewZeniths == {Deg(0), Deg(60), NaN}
RelAzimuths == {Deg(0), Deg(180)}
Hbs == {DefaultHb, FNeg(DefaultHb)}

Arrays(S) == UNION {[1..n -> S] : n \in 1..MaxCells}

KInit ==
    /\ kpc = "input"
    /\ sun_zenith \in Arrays(SunZeniths)
    /\ view_zenith \in Arrays(ViewZeniths)
    /\ relative_azimuth \in Arrays(RelAzimuths)
    /\ Len(view_zenith) = Len(sun_zenith)
    /\ Len(relative_azimuth) = Len(sun_zenith)
    /\ hb \in Hbs
    /\ raw_cos_t = <<>>
    /\ arccos_arg = <<>>
    /\ k_out = <<>>
    /\ joinSorts = FALSE /\ tieRule = "first"
    /\ StacIdle /\ SceneIdle /\ SafeIdle /\ DirectIdle /\ ExtrapIdle /\ ItemIdle

ApplyKgeo ==
    /\ kpc = "input"
    /\ raw_cos_t' = [c \in DOMAIN sun_zenith |->
                        KgeoRawCosT(sun_zenith[c], view_zenith[c],
                                    relative_azimuth[c], DefaultBr, hb)]
    /\ arccos_arg' = [c \in DOMAIN sun_zenith |-> ClampCosT(raw_cos_t'[c])]
    /\ k_out' = kgeo(sun_zenith, view_zenith, relative_azimuth, DefaultBr, hb)
    /\ kpc' = "kgeo"
    /\ UNCHANGED <<sun_zenith, view_zenith, relative_azimuth, hb>>
    /\ UNCHANGED <<libvars, stacargs, staclocals, sceneargs, safelocals, directvars,
                 extrapvars, itemvars>>

ApplyCFactor ==
    /\ kpc = "input"
    /\ k_out' = c_factor(sun_zenith, view_zenith, relative_azimuth)
    /\ kpc' = "cfactor"
    /\ UNCHANGED <<sun_zenith, view_zenith, relative_azimuth, hb, raw_cos_t,
                   arccos_arg>>
    /\ UNCHANGED <<libvars, stacargs, staclocals, sceneargs, safelocals, directvars,
                 extrapvars, itemvars>>

KNext == ApplyKgeo \/ ApplyCFactor

SpecKernel == KInit /\ [][KNext]_vars

KIdle ==
    /\ kpc = "idle" /\ sun_zenith = <<>> /\ view_zenith = <<>>
    /\ relative_azimuth = <<>> /\ hb = DefaultHb /\ raw_cos_t = <<>>
    /\ arccos_arg = <<>> /\ k_out = <<>>

-----------------------------------------------------------------------------
(* _extrapolate_c_factor on grids of two bands with NaN cells.             *)

\* the rows and columns of the grids, and the NaN cells of the first band at
\* most (unless all its cells are NaN)
ExtrapRows == 2
ExtrapCols == 3
MaxGaps == 2

ExtrapBands == <<"B02", "B03">>
ExtrapCells == 1..(ExtrapRows * ExtrapCols)

\* the value of cell p (flattened) of band b: no two cells hold the same
CellValue(b, p) == F(Scale + 100 * b + p)

\* the cells that are NaN: in the first band any few or all, in the second
\* none, all but the last, or all
GapsOfFirst ==
    {g \in SUBSET ExtrapCells : Cardinality(g) <= MaxGaps} \cup {ExtrapCells}
GapsOfSecond == {{}, ExtrapCells \ {ExtrapRows * ExtrapCols}, ExtrapCells}

GridWithGaps(g1, g2) ==
    [band |-> ExtrapBands,
     data |-> [b \in DOMAIN ExtrapBands |->
                  Reshape([p \in ExtrapCells |->
                              IF p \in (IF b = 1 THEN g1 ELSE g2) THEN NaN
                              ELSE CellValue(b, p)],
                          ExtrapRows, ExtrapCols)],
     x |-> [j \in 1..ExtrapCols |-> GridPitch * j],
     y |-> [i \in 1..ExtrapRows |-> -GridPitch * i]]

ExtrapInit ==
    /\ tieRule \in {"first", "last"}
    /\ joinSorts = FALSE
    /\ \E g1 \in GapsOfFirst, g2 \in GapsOfSecond : grid_in = GridWithGaps(g1, g2)
    /\ xpc = "input"
    /\ grid_out = Ok(<<>>) /\ grid_again = Ok(<<>>)
    /\ KIdle /\ StacIdle /\ SceneIdle /\ SafeIdle /\ DirectIdle /\ ItemIdle

Extrapolate ==
    /\ xpc = "input"
    /\ grid_out' = extrapolate_c_factor(grid_in, tieRule)
    /\ xpc' = "once"
    /\ UNCHANGED <<grid_in, grid_again>>

ExtrapolateAgain ==
    /\ xpc = "once"
    /\ ~Raised(grid_out)
    /\ grid_again' = extrapolate_c_factor(grid_out.val, tieRule)
    /\ xpc' = "twice"
    /\ UNCHANGED <<grid_in, grid_out>>

ExtrapNext ==
    /\ Extrapolate \/ ExtrapolateAgain
    /\ UNCHANGED <<kvars, libvars, stacargs, staclocals, sceneargs, safelocals,
                   directvars, itemvars>>

SpecExtrap == ExtrapInit /\ [][ExtrapNext]_vars

-----------------------------------------------------------------------------
(* c_factor.py: one call of c_factor_from_item, statement by statement.    *)

\* the items the function is called on
Items == {ItemOf(id, kind, <<4, 0>>) : id \in SceneIds, kind \in Kinds}

ItemInit ==
    /\ tieRule \in {"first", "last"}
    /\ joinSorts = FALSE
    /\ item_arg \in Items
    /\ item_to_epsg \in EpsgTexts
    /\ ipc = "start"
    /\ item_source = 0 /\ item_target = 0 /\ item_c = <<>> /\ item_calls = <<>>
    /\ item_error = Ok(<<>>)
    /\ KIdle /\ StacIdle /\ SceneIdle /\ SafeIdle /\ DirectIdle /\ ExtrapIdle

\* lines 94-101: the two codes
ItemCodes ==
    /\ ipc = "start"
    /\ item_source' = item_arg.epsg
    /\ IF Raised(ParseEpsg(item_to_epsg))
       THEN ipc' = "raised" /\ item_error' = ParseEpsg(item_to_epsg) /\ UNCHANGED item_target
       ELSE ipc' = "metadata" /\ item_target' = ParseEpsg(item_to_epsg).val
            /\ UNCHANGED item_error
    /\ UNCHANGED <<item_c, item_calls>>

\* line 104
ItemCFactor ==
    /\ ipc = "metadata"
    /\ item_calls' = Append(item_calls, "c_factor_from_metadata")
    /\ LET c == c_factor_from_metadata(Granule(item_arg.href))
       IN  IF Raised(c)
           THEN ipc' = "raised" /\ item_error' = c /\ UNCHANGED item_c
           ELSE ipc' = "extrapolate" /\ item_c' = c.val /\ UNCHANGED item_error
    /\ UNCHANGED <<item_source, item_target>>

\* line 105
ItemExtrapolate ==
    /\ ipc = "extrapolate"
    /\ item_calls' = Append(item_calls, "_extrapolate_c_factor")
    /\ LET c == extrapolate_c_factor(item_c, tieRule)
       IN  IF Raised(c)
           THEN ipc' = "raised" /\ item_error' = c /\ UNCHANGED item_c
           ELSE ipc' = "compare" /\ item_c' = c.val /\ UNCHANGED item_error
    /\ UNCHANGED <<item_source, item_target>>

\* always, whatever the two codes are
ReprojectAlways(source, target) == TRUE

\* line 108: item_source != item_target
CodesDiffer(source, target) == source # target

\* lines 108-110
ItemReproject ==
    /\ ipc = "compare"
    /\ CodesDiffer(item_source, item_target)
    /\ item_calls' = Append(item_calls, "reproject")
    /\ item_c' = Reproject(item_c, item_source, item_target)
    /\ ipc' = "reprojected"
    /\ UNCHANGED <<item_source, item_target, item_error>>

\* line 112
ItemReturn ==
    /\ \/ ipc = "compare" /\ ~CodesDiffer(item_source, item_target)
       \/ ipc = "reprojected"
    /\ ipc' = "returned"
    /\ UNCHANGED <<item_source, item_target, item_c, item_calls, item_error>>

ItemNext ==
    /\ ItemCodes \/ ItemCFactor \/ ItemExtrapolate \/ ItemReproject \/ ItemReturn
    /\ UNCHANGED <<item_arg, item_to_epsg>>
    /\ UNCHANGED <<kvars, libvars, stacargs, staclocals, sceneargs, safelocals,
                   directvars, extrapvars>>

SpecItem == ItemInit /\ [][ItemNext]_vars

-----------------------------------------------------------------------------
(* The specifications of the calls on scenes and time series.              *)

\* the time series, or one scene on local storage
Init ==
    /\ KIdle /\ DirectIdle /\ ExtrapIdle /\ ItemIdle
    /\ \/ StacInit /\ SceneIdle /\ SafeIdle
       \/ SafeInit /\ StacIdle

Next ==
    \/ StacNext /\ UNCHANGED <<kvars, libvars, stacargs, sceneargs, safelocals, directvars,
                 extrapvars, itemvars>>
    \/ SafeNext /\ UNCHANGED <<kvars, libvars, stacargs, staclocals, sceneargs, directvars,
                              extrapvars, itemvars>>

Spec == Init /\ [][Next]_vars

\* one scene: nbar_SAFE, or a direct call on its metadata
SceneInit ==
    /\ KIdle /\ StacIdle /\ ExtrapIdle /\ ItemIdle
    /\ \/ SafeInit /\ DirectIdle
       \/ DirectInit /\ SafeIdle

SceneNext ==
    \/ SafeNext /\ UNCHANGED <<kvars, libvars, stacargs, staclocals, sceneargs, directvars,
                              extrapvars, itemvars>>
    \/ DirectNext /\ UNCHANGED <<kvars, libvars, stacargs, staclocals, sceneargs, safelocals,
                                extrapvars, itemvars>>

SpecScene == SceneInit /\ [][SceneNext]_vars

-----------------------------------------------------------------------------
(* Properties of the kernels and of the c-factor (SpecKernel).             *)

AllFinite(a) == \A c \in DOMAIN a : IsFin(a[c])
NadirEverywhere(a) == \A c \in DOMAIN a : a[c] = Deg(0)

\* C6: c_factor is 1 for every band and every cell when the view zenith is 0
\* everywhere, whatever the (finite) Sun zeniths and relative azimuths are.
CFactorIsOneAtNadir ==
    (/\ kpc = "cfactor"
     /\ NadirEverywhere(view_zenith)
     /\ AllFinite(sun_zenith) /\ AllFinite(relative_azimuth))
    => \A c \in DOMAIN k_out : \A b \in BandSet : k_out[c][b] = One

\* C6 happens: two cells under different Sun zeniths, both seen from nadir
CFactorAtNadirSeen ==
    /\ kpc = "cfactor"
    /\ Len(sun_zenith) >= 2
    /\ sun_zenith[1] # sun_zenith[2]
    /\ relative_azimuth[1] # relative_azimuth[2]
    /\ NadirEverywhere(view_zenith)
    /\ AllFinite(relative_azimuth)
    /\ \A c \in DOMAIN k_out : \A b \in BandSet : k_out[c][b] = One

\* C10: what kgeo passes to arccos is a number within [-1, 1]: 1 for a raw
\* cos_t above 1, -1 for one below -1, the raw value itself when that is in
\* range, and a number in range also when the raw cos_t is NaN.
ArccosArgumentInDomain ==
    kpc = "kgeo" =>
        \A c \in DOMAIN arccos_arg :
            LET raw == raw_cos_t[c]
                arg == arccos_arg[c]
            IN  /\ IsFin(arg) /\ arg.v >= -Scale /\ arg.v <= Scale
                /\ (FLeq(raw, F(Scale)) /\ FGeq(raw, F(-Scale))) => arg = raw
                /\ (~IsNaN(raw) /\ ~FLeq(raw, F(Scale))) => arg = F(Scale)
                /\ (~IsNaN(raw) /\ ~FGeq(raw, F(-Scale))) => arg = F(-Scale)
                /\ IsFin(FArcCos(arg))

\* C10 happens: one cell with a raw cos_t above 1 and one with a NaN raw cos_t
ClampedAndNaNSeen ==
    /\ kpc = "kgeo"
    /\ \E c, d \in DOMAIN raw_cos_t :
          /\ IsFin(raw_cos_t[c]) /\ raw_cos_t[c].v > Scale
          /\ arccos_arg[c] = F(Scale)
          /\ IsNaN(raw_cos_t[d])
          /\ arccos_arg[d] = F(Scale)

\* the other cases of C10 happen too: a raw cos_t below -1 and one in range
ClampedBelowSeen ==
    /\ kpc = "kgeo"
    /\ \E c \in DOMAIN raw_cos_t :
          IsFin(raw_cos_t[c]) /\ raw_cos_t[c].v < -Scale /\ arccos_arg[c] = F(-Scale)

InRangeSeen ==
    /\ kpc = "kgeo"
    /\ \E c \in DOMAIN raw_cos_t :
          /\ IsFin(raw_cos_t[c]) /\ raw_cos_t[c].v > -Scale /\ raw_cos_t[c].v < Scale
          /\ arccos_arg[c] = raw_cos_t[c]

-----------------------------------------------------------------------------
(* Properties of the extrapolation (SpecExtrap).                           *)

EveryBandHasValid(g) ==
    \A b \in DOMAIN g.data : \E i \in DOMAIN g.data[b] : \E j \in DOMAIN g.data[b][i] :
        ~IsNaN(g.data[b][i][j])

\* the squared distance of cells <<i, j>> and <<k, l>> in grid coordinates
CellDist2(g, i, j, k, l) ==
    (g.x[j] - g.x[l]) * (g.x[j] - g.x[l]) + (g.y[i] - g.y[k]) * (g.y[i] - g.y[k])

\* cell <<k, l>> of band b is valid in g and no valid cell of b is nearer to <<i, j>>
IsNearestValid(g, b, i, j, k, l) ==
    /\ ~IsNaN(g.data[b][k][l])
    /\ \A m \in DOMAIN g.data[b] : \A n \in DOMAIN g.data[b][m] :
          ~IsNaN(g.data[b][m][n]) =>
              CellDist2(g, i, j, k, l) <= CellDist2(g, i, j, m, n)

\* C7: of a grid in which every band has a valid cell, _extrapolate_c_factor
\* returns a grid of the same bands and shape without NaN, where the valid
\* cells keep their values and each NaN cell holds the value of a nearest
\* valid cell of its own band.
ExtrapolationFillsFromNearest ==
    (xpc \in {"once", "twice"} /\ EveryBandHasValid(grid_in)) =>
        /\ ~Raised(grid_out)
        /\ grid_out.val.band = grid_in.band
        /\ grid_out.val.x = grid_in.x /\ grid_out.val.y = grid_in.y
        /\ DOMAIN grid_out.val.data = DOMAIN grid_in.data
        /\ \A b \in DOMAIN grid_in.data :
              /\ DOMAIN grid_out.val.data[b] = DOMAIN grid_in.data[b]
              /\ \A i \in DOMAIN grid_in.data[b] :
                    /\ DOMAIN grid_out.val.data[b][i] = DOMAIN grid_in.data[b][i]
                    /\ \A j \in DOMAIN grid_in.data[b][i] :
                          LET before == grid_in.data[b][i][j]
                              after == grid_out.val.data[b][i][j]
                          IN  /\ ~IsNaN(after)
                              /\ ~IsNaN(before) => after = before
                              /\ IsNaN(before) =>
                                    \E k \in DOMAIN grid_in.data[b] :
                                        \E l \in DOMAIN grid_in.data[b][k] :
                                            /\ IsNearestValid(grid_in, b, i, j, k, l)
                                            /\ after = grid_in.data[b][k][l]

\* C7 happens: a grid whose two bands have different NaN cells, some of them
\* with more than one nearest valid cell, was filled
GapsFilled ==
    /\ xpc = "once"
    /\ ~Raised(grid_out)
    /\ IsNaN(grid_in.data[1][1][1]) /\ IsNaN(grid_in.data[1][2][2])
    /\ ~IsNaN(grid_in.data[1][1][2]) /\ ~IsNaN(grid_in.data[1][2][1])
    /\ IsNaN(grid_in.data[2][1][1]) /\ ~IsNaN(grid_in.data[2][ExtrapRows][ExtrapCols])
    /\ grid_out.val.data[2][1][1] = grid_in.data[2][ExtrapRows][ExtrapCols]
    /\ grid_out.val.data[1][1][1] \in {grid_in.data[1][1][2], grid_in.data[1][2][1]}

\* C8: _extrapolate_c_factor applied to its own output returns that output.
ExtrapolationIdempotent ==
    (xpc = "twice" /\ EveryBandHasValid(grid_in)) =>
        /\ ~Raised(grid_again)
        /\ grid_again.val = grid_out.val

\* C8 happens: the output of a call that filled cells went through a second call
FilledTwice ==
    /\ xpc = "twice"
    /\ \E i \in 1..ExtrapRows : \E j \in 1..ExtrapCols : IsNaN(grid_in.data[1][i][j])
    /\ IsNaN(grid_in.data[2][1][1])
    /\ ~Raised(grid_again)
    /\ grid_again.val.data[1] # grid_in.data[1]

-----------------------------------------------------------------------------
(* Properties of nbar_stac and nbar_SAFE (Spec).                           *)

Positions(q) == [p \in DOMAIN q |-> p]

\* the scene of the cube's timestep p, and what its catalog item is like
SceneAt(p) == da[p].id
KindAt(p) == itemKind[SceneAt(p)]

\* the positions of the input cube that the returned cube holds, in its order
RetainedPositions == [k \in DOMAIN result |-> result[k].t]

\* the input is a time series in which a derivation can only fail for missing
\* angles: the CRS text is well-formed and every band that has detectors is
\* seen somewhere
OnlyMissingAngles ==
    /\ pc # "idle"
    /\ epsg.code >= 0
    /\ \A p \in DOMAIN da : KindAt(p) # "blank"

\* C1: whatever timesteps fail for missing angles, nbar_stac returns, and
\* returns exactly the timesteps that did not fail, in their order.
DropsExactlyTheFailed ==
    (OnlyMissingAngles /\ pc \in {"returned", "raised"}) =>
        /\ pc = "returned"
        /\ RetainedPositions =
               SelectSeq(Positions(da), LAMBDA p : KindAt(p) # "absent")

\* C2: the c-factor slice and the harmonization offset at position k of the
\* returned cube are those of the catalog item of the scene at that position,
\* and the c-factors, the baselines and the retained timesteps are as many.
SlicesFromOwnItem ==
    /\ pc = "returned" =>
          /\ Len(c_concat) = Len(result) /\ Len(harmonize) = Len(result)
          /\ \A k \in DOMAIN result :
                LET item == CatalogItem(result[k].id)
                IN  /\ c_concat[k] = TryCFactorOf(item, itemKind[item.id], epsg, tieRule).val
                    /\ harmonize[k] = HarmonizeOffset(item.baseline)
    /\ pc = "raised" => error.msg # SizesMsg

\* C3: 1000 is subtracted from the DN of a scene, or of a timestep of a time
\* series, exactly when its own processing baseline is at least 4.0.
ShiftByOwnBaseline ==
    /\ \A k \in DOMAIN written :
          written[k].shifted =
              IF FloatOfBaseline(PROCESSING_BASELINE) >= 400
              THEN FSub(written[k].masked, F(1000 * Scale))
              ELSE written[k].masked
    /\ pc = "returned" =>
          \A k \in DOMAIN result :
              harmonize[k] =
                  IF FloatOfBaseline(itemBaseline[result[k].id]) >= 400
                  THEN F(-1000 * Scale) ELSE F(0)

ExtrapolationFailureIsFatal ==
    /\ (spc \in {"bands", "done", "raised"} /\ metadata.blank # {}) =>
          spc = "raised" /\ safe_error.msg = NoPointsMsg
    /\ (pc # "idle" /\ epsg.code >= 0) =>
          /\ \A k \in DOMAIN warned :
                itemKind[ordered_items[warned[k].i + 1]] # "blank"
          /\ \A p \in 1..loop_i :
                (/\ itemKind[ordered_items[p]] = "blank"
                 /\ \A r \in 1..(p - 1) : itemKind[ordered_items[r]] # "blank")
                => pc = "raised" /\ error.msg = NoPointsMsg

\* What holds of nbar_stac where the join keeps the order of the cube: the
\* slices and offsets are those of the own items, the shift follows the own
\* baseline, and unless every timestep fails the call returns exactly the
\* timesteps that did not fail.
OrderKept == pc \in {"loop", "returned", "raised"} =>
                 ordered_items = [p \in DOMAIN da |-> SceneAt(p)]

AlignedWhereOrderKept == OrderKept => (SlicesFromOwnItem /\ ShiftByOwnBaseline)

DropsTheFailedWhereOrderKept ==
    (OrderKept /\ \E p \in DOMAIN da : KindAt(p) # "absent") => DropsExactlyTheFailed

-----------------------------------------------------------------------------
(* Properties of the calls on one scene (SpecScene).                       *)

\* the outcome of the call, once it has one
SceneOutcome ==
    IF spc \in {"bands", "done"} THEN Ok(safe_c)
    ELSE IF spc = "raised" THEN safe_error
    ELSE returned

SceneCallEnded == spc \in {"bands", "done", "raised"} \/ apc \in {"returned", "raised"}

Names(msg, band) == \E w \in DOMAIN msg : msg[w] = band

\* C5: when a band has no detector in the tile metadata, the call returns no
\* grid: it raises an error whose message names a band that is missing.
MissingBandIsNamed ==
    (SceneCallEnded /\ metadata.absent # {}) =>
        /\ Raised(SceneOutcome)
        /\ \E b \in metadata.absent : Names(SceneOutcome.msg, band_names[b + 1])

\* the band axis as documented: the Sun, then B01..B08, B8A, B09..B12
CanonicalSubjects ==
    <<"Sun", "B01", "B02", "B03", "B04", "B05", "B06", "B07", "B08", "B8A",
      "B09", "B10", "B11", "B12">>

\* the detector observations of a band, wherever they stand in the list
DetectorsOf(meta, bandId) ==
    {p \in DOMAIN meta.detectors : meta.detectors[p].bandId = bandId}

RECURSIVE DegSum(_, _, _, _, _)
DegSum(meta, ps, a, i, j) ==
    IF ps = {} THEN 0
    ELSE LET p == CHOOSE q \in ps : TRUE
         IN  meta.detectors[p][a][i][j].deg + DegSum(meta, ps \ {p}, a, i, j)

\* the observations among ps in which cell (i, j) is a number
SeenIn(meta, ps, a, i, j) == {p \in ps : ~meta.detectors[p][a][i][j].nan}

\* the mean of cell (i, j) over the observations ps that see it, NaN if none does
CellMeanOver(meta, ps, a, i, j) ==
    IF SeenIn(meta, ps, a, i, j) = {} THEN NaN
    ELSE F(Quot(DegSum(meta, SeenIn(meta, ps, a, i, j), a, i, j) * Scale,
                Cardinality(SeenIn(meta, ps, a, i, j))))

AnglesReturned == apc = "returned" /\ called = "angles_from_metadata"

\* the same scene with its detector observations listed the other way round
OtherOrder(m) == [m EXCEPT !.reversed = ~m.reversed]

\* C11: the band axis of the grid angles_from_metadata returns is the Sun
\* followed by B01..B08, B8A, B09..B12, each detector observation counts
\* under the band of its bandId (bandId 8 is B8A) whatever the order of the
\* observations in the metadata, and the extrapolation returns the bands in
\* the order it received them.
BandAxisFixed ==
    /\ AnglesReturned =>
          /\ returned.val.band = CanonicalSubjects
          /\ \A bandId \in 0..12 : \A a \in {"Zenith", "Azimuth"} :
                returned.val.data[bandId + 2][a] =
                    [i \in 1..GridSize |-> [j \in 1..GridSize |->
                        CellMeanOver(Document(metadata),
                                     DetectorsOf(Document(metadata), bandId), a, i, j)]]
          /\ returned = angles_from_metadata(Document(OtherOrder(metadata)))
    /\ spc \in {"bands", "done"} =>
          /\ safe_c.band = SceneCFactorOf(metadata).val.band
          /\ \A p \in DOMAIN safe_c.band :
                Ok(safe_c.data[p]) =
                    extrapolate_data_array(SceneCFactorOf(metadata).val.data[p],
                                           safe_c.x, safe_c.y, tieRule)

\* a grid returned for a scene whose bands have two detector observations
\* each, listed in descending order of bandId
ReversedDetectorsAveraged == AnglesReturned /\ metadata.reversed /\ metadata.gaps

-----------------------------------------------------------------------------
(* Properties of c_factor_from_item (SpecItem).                            *)

ItemOutcome == IF ipc = "raised" THEN item_error ELSE Ok(item_c)

\* the statements give what the function gives as a whole
ItemAgrees ==
    ipc \in {"returned", "raised"} => ItemOutcome = c_factor_from_item(item_arg, item_to_epsg, tieRule)

\* the positions in the calls made so far of one operation
CallsOf(op) == {p \in DOMAIN item_calls : item_calls[p] = op}

-----------------------------------------------------------------------------
(* Properties of nbar_stac on a CRS text that holds no EPSG number.        *)

\* an error that says the CRS is not supported
IsCrsError(e) ==
    /\ Raised(e)
    /\ \/ e.exc = "CRSUnsupported"
       \/ \E p \in DOMAIN e.msg : e.msg[p] \in {"CRS", "crs", "EPSG", "epsg"}

\* C13: when the target CRS text is not a well-formed EPSG identifier,
\* nbar_stac ends with an error that says the CRS is not supported; the
\* failure is never taken for missing angles (no timestep is excluded, no
\* omission warning is emitted) and no cube is returned.
MalformedCrsIsCrsError ==
    (pc # "idle" /\ epsg.code < 0) =>
        /\ exclude = <<>>
        /\ warned = <<>>
        /\ pc # "returned"
        /\ pc = "raised" => IsCrsError(error)

-----------------------------------------------------------------------------
(* Properties of the means of angles_from_metadata (SpecScene).            *)

\* the cell (i, j) of one angle of the grid returned, at a position of the
\* band axis
ReturnedCell(pos, a, i, j) == returned.val.data[pos][a][i][j]

\* the number the metadata gives for cell (i, j) in the observations ps
ObservedValues(meta, ps, a, i, j) ==
    {meta.detectors[p][a][i][j].deg * Scale : p \in SeenIn(meta, ps, a, i, j)}

\* C14: for every band, each cell of the aggregated angle grid is the mean
\* over the detector observations of that band in which the cell is not NaN,
\* a cell is NaN exactly when it is NaN in every observation of the band,
\* and the Sun grid is the single Sun observation unchanged.
CellIsMeanOfSeen ==
    AnglesReturned =>
        \A a \in {"Zenith", "Azimuth"} : \A i, j \in 1..GridSize :
            /\ ReturnedCell(1, a, i, j) = ParseFloat(Document(metadata).sun[a][i][j])
            /\ \A bandId \in 0..12 :
                  LET meta == Document(metadata)
                      ps == DetectorsOf(meta, bandId)
                      seen == SeenIn(meta, ps, a, i, j)
                      cell == ReturnedCell(bandId + 2, a, i, j)
                  IN  /\ IsNaN(cell) <=> seen = {}
                      /\ seen # {} =>
                            /\ IsFin(cell)
                            /\ cell.v = Quot(DegSum(meta, seen, a, i, j) * Scale,
                                             Cardinality(seen))
                      /\ Cardinality(ObservedValues(meta, ps, a, i, j)) = 1 =>
                            cell.v \in ObservedValues(meta, ps, a, i, j)

\* a grid returned in which a band has a cell seen by two observations that
\* differ, a cell seen by one of two, and a cell seen by none
MeanOverOneTwoAndNone ==
    /\ AnglesReturned
    /\ \E bandId \in 0..12 : \E i, j, k, l, m, n \in 1..GridSize :
          LET meta == Document(metadata)
              ps == DetectorsOf(meta, bandId)
          IN  /\ Cardinality(ps) = 2
              /\ Cardinality(ObservedValues(meta, ps, "Zenith", i, j)) = 2
              /\ Cardinality(SeenIn(meta, ps, "Zenith", k, l)) = 1
              /\ SeenIn(meta, ps, "Zenith", m, n) = {}
              /\ IsNaN(ReturnedCell(bandId + 2, "Zenith", m, n))

-----------------------------------------------------------------------------
(* Properties of the band loop of nbar_SAFE (SpecScene).                   *)

\* the c-factor of one band, as extrapolated before the loop, at the pixel
OwnCFactor(band) ==
    InterpGrid(SafeCFactorOf(metadata, tieRule).val.data[
                   IndexOf(SafeCFactorOf(metadata, tieRule).val.band, band)],
               safe_c.x, safe_c.y, CubeX, CubeY)

\* what was written for the p-th band follows from that band's own image,
\* the baseline and that band's own c-factor, step by step
OwnSteps(p) ==
    LET w == written[p]
        dn == ImageDN(p)
        product == FMul(w.shifted, w.interpolated)
    IN  /\ w.band = bands[p]
        /\ w.masked = (IF IsFin(dn) /\ dn.v > 0 THEN dn ELSE NaN)
        /\ w.shifted = (IF FloatOfBaseline(PROCESSING_BASELINE) >= HarmonizeFrom
                        THEN FSub(w.masked, F(1000 * Scale)) ELSE w.masked)
        /\ w.interpolated = OwnCFactor(bands[p])
        /\ ~to_int => w.value = product
        /\ to_int =>
              /\ w.value = AsInt16(FRound(product), castNaN)
              /\ IsFin(w.value) /\ w.value.v % Scale = 0
              /\ w.value.v \in (-32768 * Scale)..(32767 * Scale)

\* C15: nbar_SAFE takes every band through the same sequence on its own:
\* nodata masking, harmonization shift, multiplication by the c-factor
\* interpolated to the band's pixels, rounding and the cast to int16 only
\* when to_int is set, then writing; what is written for a band does not
\* depend on another band's intermediate values, bands already written stay
\* as they are, and the c-factor grid is not modified by the loop.
BandsProcessedIndependently ==
    /\ [](\A p \in DOMAIN written : OwnSteps(p))
    /\ [](spc \in {"bands", "done"} => Ok(safe_c) = SafeCFactorOf(metadata, tieRule))
    /\ [][spc = "bands" =>
              /\ safe_c' = safe_c
              /\ safe_harmonize' = safe_harmonize
              /\ Len(written') \in {Len(written), Len(written) + 1}
              /\ SubSeq(written', 1, Len(written)) = written]_vars

\* all bands written as int16, of a scene whose first image is nodata at
\* the pixel, shifted by the baseline
AllBandsWrittenAsInt ==
    /\ spc = "done" /\ to_int /\ safe_harmonize
    /\ Len(written) = Len(bands)
    /\ IsNaN(written[1].masked) /\ IsFin(written[2].masked)
    /\ written[2].interpolated # written[1].interpolated

-----------------------------------------------------------------------------
(* Properties of nbar_stac when no timestep is left (Spec).                *)

\* every item of the loop has failed and the loop is over
AllDropped ==
    /\ pc \in {"returned", "raised"}
    /\ ordered_items # <<>>
    /\ Len(exclude) = Len(ordered_items)

\* C16: when every timestep has been dropped, nbar_stac ends with the error
\* raised by the concatenation of the empty list of c-factors; it returns no
\* cube, and a cube that is returned has at least one timestep.
AllDroppedRaisesAtConcat ==
    /\ AllDropped =>
          /\ pc = "raised"
          /\ c_array = <<>>
          /\ error = Raise("ValueError", NothingToConcatMsg)
          /\ result = <<>>
    /\ pc = "returned" => result # <<>> /\ c_array # <<>>

\* a call on two or more timesteps that all lack angles, with a well-formed
\* CRS text, ended by the concatenation
EveryTimestepDropped ==
    /\ AllDropped
    /\ Len(da) >= 2
    /\ epsg.code >= 0
    /\ Len(warned) = Len(da)
    /\ error.msg = NothingToConcatMsg

====
